---- MODULE Spec2Model ----
(***************************************************************************)
(* farmOS-aggregator, app/api/utils/farms.py: the farm resolvers, the      *)
(* token saver, the farmOS client factory, the OAuth code exchange and the *)
(* admin alert.                                                            *)
(*                                                                         *)
(* Python's Optional values are sequences of length at most one: None is   *)
(* <<>> and a present value x is <<x>>, so that None and the empty list    *)
(* stay different values.                                                  *)
(***************************************************************************)
EXTENDS Integers, Sequences, FiniteSets, TLC

VARIABLES
    \* ---- resolver requests (get_farm_by_url ... get_farms_url_or_list)
    directory,      \* the farm table: a set of rows [id, url, active]
    farm_url,       \* Query(None): Optional url
    farm_id,        \* Query(None): Optional list of ids
    farm_access,    \* the caller's FarmAccess
    looked,         \* what crud.farm.get_by_url handed back in this request
    by_url,         \* outcome of the by-url dependency, None when not run
    by_list,        \* outcome of the by-id-list dependency, None when not run
    result,         \* outcome of the operation of this request
    rpc,            \* "start", then the name of the operation that ran
    \* ---- the database and the farmOS clients (_save_token, get_farm_client)
    farm_row,       \* farm id -> [is_authorized, auth_error, last_accessed]
    farm_tokens,    \* the farm token table: rows [id, farm_id, access_token, refresh_token]
    next_token_id,  \* the primary key the next inserted token row gets
    now,            \* the clock
    settings,       \* [AGGREGATOR_ALERT_ALL_ERRORS, EMAILS_ENABLED]
    users,          \* the user table, a list of [email, is_superuser]
    pc,             \* session -> "idle" | "constructing" (inside farmOS(...), line 212)
    bound,          \* session -> Optional farm id its token_updater is bound to
    saving,         \* session -> Optional [token, farm_token]: _save_token past line 188
    outcome,        \* how the last get_farm_client call ended: [farm, res, sent],
                    \* sent being the [email_to, message] its alert delivered
    last_saved,     \* farm id -> Optional token data of the last save that committed
    \* ---- admin_alert_email and get_oauth_token
    alert,          \* Optional [bad, res]: an admin_alert_email call and how it went
    oauth_farm_url, \* Optional farm_url of the code exchange
    auth_params,    \* Optional parameters of the code exchange
    response,       \* Optional answer of the farm's token endpoint
    posted,         \* the requests.post calls made, in order
    exchanged       \* Optional outcome of get_oauth_token

rvars == <<directory, farm_url, farm_id, farm_access, looked, by_url, by_list, result, rpc>>

cvars == <<farm_row, farm_tokens, next_token_id, now, settings, users,
           pc, bound, saving, outcome, last_saved>>

evars == <<alert, oauth_farm_url, auth_params, response, posted, exchanged>>

vars == <<rvars, cvars, evars>>

-----------------------------------------------------------------------------
(* Optional values *)

None == <<>>

Some(x) == <<x>>

IsNone(o) == o = <<>>

Val(o) == o[1]

-----------------------------------------------------------------------------
(* Bounds of the model *)

\* farm ids are 1..MaxFarmId, in the table and in requests
MaxFarmId == 2

\* longest farm_id list of a request
MaxIds == 2

\* the tokens an OAuth server issues are numbered 1..MaxTok
MaxTok == 2

\* longest user table of an admin alert
MaxUsers == 3

\* the clock runs from 0 to MaxTime
MaxTime == 1

Urls == {"a", "b"}

FarmIds == 1..MaxFarmId

-----------------------------------------------------------------------------
(* HTTP statuses and the module's two prebuilt exceptions *)

HTTP_401_UNAUTHORIZED == 401

HTTP_403_FORBIDDEN == 403

HTTP_404_NOT_FOUND == 404

unauthorized_exception ==
    [status_code |-> HTTP_401_UNAUTHORIZED,
     detail |-> "Not enough permissions to access this farm."]

farm_not_found_exception ==
    [status_code |-> HTTP_404_NOT_FOUND, detail |-> "Farm does not exist."]

\* The outcome of a call: it returns a value or raises; fetches lists the
\* crud.farm queries the call issued, in order.
Return(v, fetches) == [kind |-> "return", value |-> v, exc |-> None, fetches |-> fetches]

Raise(e, fetches) == [kind |-> "raise", value |-> None, exc |-> Some(e), fetches |-> fetches]

-----------------------------------------------------------------------------
(* FarmAccess and the farm table's queries (app.schemas.token, app.crud) *)

\* FarmAccess.can_access_farm
can_access_farm(fa, id) ==
    IF fa.all_farms THEN TRUE
    ELSE IF ~IsNone(fa.farm_id_list) THEN id \in Val(fa.farm_id_list)
    ELSE FALSE

RECURSIVE SortById(_)
\* rows of the farm table as a list in id order
SortById(S) ==
    IF S = {} THEN <<>>
    ELSE LET m == CHOOSE f \in S : \A g \in S : f.id <= g.id
         IN  <<m>> \o SortById(S \ {m})

SeqRange(s) == {s[i] : i \in 1..Len(s)}

\* the active=True filter of the crud queries
Visible(f, active) == active => f.active

\* crud.farm.get_by_url: one row with that url, or None. The url column is
\* not unique, so any matching row may be the one returned.
get_by_url(dir, url, active) ==
    LET m == {f \in dir : f.url = url /\ Visible(f, active)}
    IN  IF m = {} THEN {None} ELSE {Some(f) : f \in m}

\* crud.farm.get_by_id
get_by_id(dir, id) ==
    LET m == {f \in dir : f.id = id}
    IN  IF m = {} THEN None ELSE Some(CHOOSE f \in m : TRUE)

\* crud.farm.get_by_multi_id
get_by_multi_id(dir, ids, active) ==
    SortById({f \in dir : f.id \in ids /\ Visible(f, active)})

\* crud.farm.get_multi
get_multi(dir, active) == SortById({f \in dir : Visible(f, active)})

-----------------------------------------------------------------------------
(* The resolvers *)

\* farm_by_url with the two failures merged into one error
farm_by_url_merged(url, farm, fa) ==
    IF ~IsNone(url)
    THEN IF IsNone(farm) \/ ~can_access_farm(fa, Val(farm).id)
         THEN Raise(farm_not_found_exception, <<"get_by_url">>)
         ELSE Return(farm, <<"get_by_url">>)
    ELSE Return(None, <<>>)

\* farm_by_url without the can_access_farm test
farm_by_url_unchecked(url, farm, fa) ==
    IF ~IsNone(url)
    THEN IF IsNone(farm) THEN Raise(farm_not_found_exception, <<"get_by_url">>)
         ELSE Return(farm, <<"get_by_url">>)
    ELSE Return(None, <<>>)

\* get_farm_by_url / get_active_farm_by_url, given what get_by_url returned
farm_by_url(url, farm, fa) ==
    IF ~IsNone(url)
    THEN IF IsNone(farm) THEN Raise(farm_not_found_exception, <<"get_by_url">>)
         ELSE IF ~can_access_farm(fa, Val(farm).id)
              THEN Raise(unauthorized_exception, <<"get_by_url">>)
              ELSE Return(farm, <<"get_by_url">>)
    ELSE Return(None, <<>>)

\* FirstDenied leaving the loop after its first round
FirstDenied_first_only(ids, fa, i) ==
    IF i > Len(ids) THEN 0
    ELSE IF ~can_access_farm(fa, ids[i]) THEN i
    ELSE 0

RECURSIVE FirstDenied(_, _, _)
\* the loop "for id in farm_id: if not can_access_farm(id): raise": the
\* position of the id that raises, 0 when the loop runs to its end
FirstDenied(ids, fa, i) ==
    IF i > Len(ids) THEN 0
    ELSE IF ~can_access_farm(fa, ids[i]) THEN i
    ELSE FirstDenied(ids, fa, i + 1)

\* requested_farms returning an empty list instead of raising not found
requested_farms_empty_ok(dir, ids, fa, active) ==
    IF FirstDenied(ids, fa, 1) # 0
    THEN Raise(unauthorized_exception, <<>>)
    ELSE Return(Some(get_by_multi_id(dir, SeqRange(ids), active)), <<"get_by_multi_id">>)

\* farm_id given: every id is checked, then the farms are fetched
requested_farms(dir, ids, fa, active) ==
    IF FirstDenied(ids, fa, 1) # 0
    THEN Raise(unauthorized_exception, <<>>)
    ELSE LET farms_by_id == get_by_multi_id(dir, SeqRange(ids), active)
         IN  IF Len(farms_by_id) > 0
             THEN Return(Some(farms_by_id), <<"get_by_multi_id">>)
             ELSE Raise(farm_not_found_exception, <<"get_by_multi_id">>)

\* farms_by_id_list testing farm_id_list for truth, not for None: an empty
\* id set of the grant falls through, and so does the active filter of it
farms_by_id_list_truthy(dir, ids, fa, active) ==
    IF IsNone(ids) /\ fa.all_farms
    THEN Return(Some(get_multi(dir, active)), <<"get_multi">>)
    ELSE IF IsNone(ids) /\ ~IsNone(fa.farm_id_list) /\ Val(fa.farm_id_list) # {}
    THEN Return(Some(get_by_multi_id(dir, Val(fa.farm_id_list), FALSE)),
                <<"get_by_multi_id">>)
    ELSE IF ~IsNone(ids)
    THEN requested_farms(dir, Val(ids), fa, active)
    ELSE Return(None, <<>>)

\* get_farms_by_id_list / get_active_farms_by_id_list
farms_by_id_list(dir, ids, fa, active) ==
    IF IsNone(ids) /\ fa.all_farms
    THEN Return(Some(get_multi(dir, active)), <<"get_multi">>)
    ELSE IF IsNone(ids) /\ ~IsNone(fa.farm_id_list)
    THEN Return(Some(get_by_multi_id(dir, Val(fa.farm_id_list), active)),
                <<"get_by_multi_id">>)
    ELSE IF ~IsNone(ids)
    THEN requested_farms(dir, Val(ids), fa, active)
    ELSE Return(None, <<>>)

\* url_or_list with "if" for "elif": both results are added
url_or_list_both(farm_by_url_, farms_by_list) ==
    (IF ~IsNone(farm_by_url_) THEN <<Val(farm_by_url_)>> ELSE <<>>)
    \o (IF ~IsNone(farms_by_list) THEN Val(farms_by_list) ELSE <<>>)

\* the body of get_farms_url_or_list / get_active_farms_url_or_list
url_or_list(farm_by_url_, farms_by_list) ==
    IF ~IsNone(farm_by_url_) THEN <<Val(farm_by_url_)>>
    ELSE IF ~IsNone(farms_by_list) THEN Val(farms_by_list)
    ELSE <<>>

\* get_farm_by_id
farm_by_id(dir, id, fa) ==
    IF ~can_access_farm(fa, id) THEN Raise(unauthorized_exception, <<>>)
    ELSE LET farm == get_by_id(dir, id)
         IN  IF IsNone(farm) THEN Raise(farm_not_found_exception, <<"get_by_id">>)
             ELSE Return(farm, <<"get_by_id">>)

-----------------------------------------------------------------------------
(* The database rows of the token store and the client factory *)

\* two concurrent requests, each with its own database session
Sessions == {"s1", "s2"}

\* the farms get_farm_client is called on
ClientFarms == {1}

Errors == {"invalid_grant", "connection refused"}

\* the tokens the farm's OAuth server issues: the k-th one is a fresh access
\* token with a fresh refresh token
TokenData == {[access_token |-> k, refresh_token |-> k] : k \in 1..MaxTok}

UserTable == <<[email |-> 1, is_superuser |-> TRUE],
               [email |-> 2, is_superuser |-> FALSE],
               [email |-> 3, is_superuser |-> TRUE]>>

\* no get_farm_client call has run and no farm has a token
DbIdle ==
    /\ farm_row = [f \in ClientFarms |->
                     [is_authorized |-> FALSE, auth_error |-> None, last_accessed |-> None]]
    /\ farm_tokens = {}
    /\ next_token_id = 1
    /\ pc = [p \in Sessions |-> "idle"]
    /\ bound = [p \in Sessions |-> None]
    /\ saving = [p \in Sessions |-> None]
    /\ outcome = None
    /\ last_saved = [f \in ClientFarms |-> None]

\* no alert has been sent and no code exchanged
ExchangeIdle ==
    /\ alert = None
    /\ oauth_farm_url = None
    /\ auth_params = None
    /\ response = None
    /\ posted = <<>>
    /\ exchanged = None

\* no resolver request is being served
ResolversIdle ==
    /\ directory = {}
    /\ farm_url = None
    /\ farm_id = None
    /\ farm_access = [all_farms |-> FALSE, farm_id_list |-> None]
    /\ looked = None
    /\ by_url = None
    /\ by_list = None
    /\ result = None
    /\ rpc = "idle"

-----------------------------------------------------------------------------
(* Resolver requests: the inputs are drawn in InitResolve, one operation   *)
(* runs on them.                                                            *)

Absent == <<>>

\* every farm table with ids in FarmIds (id is the primary key)
Directories ==
    { {[id |-> i, url |-> c[i][1], active |-> c[i][2]] : i \in {j \in FarmIds : c[j] # Absent}} :
        c \in [FarmIds -> {Absent} \cup (Urls \X BOOLEAN)] }

\* the three shapes of a FarmAccess
FarmAccesses ==
    {[all_farms |-> TRUE, farm_id_list |-> None]}
    \cup {[all_farms |-> FALSE, farm_id_list |-> Some(S)] : S \in SUBSET FarmIds}
    \cup {[all_farms |-> FALSE, farm_id_list |-> None]}

IdLists == UNION {[1..n -> FarmIds] : n \in 0..MaxIds}

InitResolve ==
    /\ directory \in Directories
    /\ farm_url \in {None} \cup {Some(u) : u \in Urls}
    /\ farm_id \in {None} \cup {Some(l) : l \in IdLists}
    /\ farm_access \in FarmAccesses
    /\ looked = None
    /\ by_url = None
    /\ by_list = None
    /\ result = None
    /\ rpc = "start"
    /\ DbIdle
    /\ now = 0
    /\ settings = [AGGREGATOR_ALERT_ALL_ERRORS |-> FALSE, EMAILS_ENABLED |-> FALSE]
    /\ users = <<>>
    /\ ExchangeIdle

UrlLookups(active) ==
    IF IsNone(farm_url) THEN {None} ELSE get_by_url(directory, Val(farm_url), active)

ByUrl(active, name) ==
    /\ rpc = "start"
    /\ \E farm \in UrlLookups(active) :
        /\ looked' = farm
        /\ by_url' = Some(farm_by_url(farm_url, farm, farm_access))
        /\ result' = by_url'
    /\ rpc' = name
    /\ UNCHANGED <<directory, farm_url, farm_id, farm_access, by_list, cvars, evars>>

get_farm_by_url == ByUrl(FALSE, "get_farm_by_url")

get_active_farm_by_url == ByUrl(TRUE, "get_active_farm_by_url")

ByIdList(active, name) ==
    /\ rpc = "start"
    /\ by_list' = Some(farms_by_id_list(directory, farm_id, farm_access, active))
    /\ result' = by_list'
    /\ rpc' = name
    /\ UNCHANGED <<directory, farm_url, farm_id, farm_access, looked, by_url, cvars, evars>>

get_farms_by_id_list == ByIdList(FALSE, "get_farms_by_id_list")

get_active_farms_by_id_list == ByIdList(TRUE, "get_active_farms_by_id_list")

\* The route's farm_id path parameter is taken from the request's list.
get_farm_by_id ==
    /\ rpc = "start"
    /\ ~IsNone(farm_id) /\ Len(Val(farm_id)) = 1
    /\ result' = Some(farm_by_id(directory, Val(farm_id)[1], farm_access))
    /\ rpc' = "get_farm_by_id"
    /\ UNCHANGED <<directory, farm_url, farm_id, farm_access, looked, by_url, by_list, cvars, evars>>

\* UrlOrList solving the by-id-list dependency only when the by-url one
\* gave no farm
UrlOrList_lazy(active, name) ==
    /\ rpc = "start"
    /\ \E farm \in UrlLookups(active) :
        LET u == farm_by_url(farm_url, farm, farm_access)
            l == IF u.kind = "return" /\ ~IsNone(u.value)
                 THEN Return(None, <<>>)
                 ELSE farms_by_id_list(directory, farm_id, farm_access, active)
        IN  /\ looked' = farm
            /\ by_url' = Some(u)
            /\ IF u.kind = "raise"
               THEN /\ by_list' = None
                    /\ result' = Some(u)
               ELSE /\ by_list' = Some(l)
                    /\ result' = IF l.kind = "raise"
                                 THEN Some(Raise(Val(l.exc), u.fetches \o l.fetches))
                                 ELSE Some(Return(Some(url_or_list(u.value, l.value)),
                                                  u.fetches \o l.fetches))
    /\ rpc' = name
    /\ UNCHANGED <<directory, farm_url, farm_id, farm_access, cvars, evars>>

\* Depends(): the by-url dependency is solved first, then the by-id-list
\* one; an exception of either ends the request before the body runs.
UrlOrList(active, name) ==
    /\ rpc = "start"
    /\ \E farm \in UrlLookups(active) :
        LET u == farm_by_url(farm_url, farm, farm_access)
            l == farms_by_id_list(directory, farm_id, farm_access, active)
        IN  /\ looked' = farm
            /\ by_url' = Some(u)
            /\ IF u.kind = "raise"
               THEN /\ by_list' = None
                    /\ result' = Some(u)
               ELSE /\ by_list' = Some(l)
                    /\ result' = IF l.kind = "raise"
                                 THEN Some(Raise(Val(l.exc), u.fetches \o l.fetches))
                                 ELSE Some(Return(Some(url_or_list(u.value, l.value)),
                                                  u.fetches \o l.fetches))
    /\ rpc' = name
    /\ UNCHANGED <<directory, farm_url, farm_id, farm_access, cvars, evars>>

get_farms_url_or_list == UrlOrList(FALSE, "get_farms_url_or_list")

get_active_farms_url_or_list == UrlOrList(TRUE, "get_active_farms_url_or_list")

NextResolve ==
    \/ get_farm_by_url
    \/ get_active_farm_by_url
    \/ get_farms_by_id_list
    \/ get_active_farms_by_id_list
    \/ get_farm_by_id
    \/ get_farms_url_or_list
    \/ get_active_farms_url_or_list

SpecResolve == InitResolve /\ [][NextResolve]_vars

-----------------------------------------------------------------------------
(* The token store: _save_token and the crud it calls *)

\* farm.token: the token row the relationship loads for the farm, None when
\* the farm has none; with several rows any of them may be the one loaded
farm_token(tokens, farm) ==
    LET m == {t \in tokens : t.farm_id = farm}
    IN  IF m = {} THEN {None} ELSE {Some(t.id) : t \in m}

\* token_in losing the refresh token
token_in_no_refresh(farm, token) ==
    [farm_id |-> farm, access_token |-> token.access_token, refresh_token |-> 0]

\* FarmTokenCreate(farm_id=farm.id, **token)
token_in(farm, token) ==
    [farm_id |-> farm, access_token |-> token.access_token,
     refresh_token |-> token.refresh_token]

\* crud create_farm_token: one new row
create_farm_token(tokens, id, tin) ==
    tokens \cup {[id |-> id, farm_id |-> tin.farm_id, access_token |-> tin.access_token,
                  refresh_token |-> tin.refresh_token]}

\* crud update_farm_token: the fields of the row are replaced in one write
update_farm_token(tokens, id, tin) ==
    {IF t.id = id
     THEN [id |-> id, farm_id |-> tin.farm_id, access_token |-> tin.access_token,
           refresh_token |-> tin.refresh_token]
     ELSE t : t \in tokens}

\* _save_token inserting whether or not the farm has a token
save_token_always_create(tokens, id, farm, token, cur) ==
    [tokens |-> create_farm_token(tokens, id, token_in(farm, token)), next |-> id + 1]

\* _save_token from line 188 on, cur being the farm.token it read
save_token(tokens, id, farm, token, cur) ==
    IF ~IsNone(cur)
    THEN [tokens |-> update_farm_token(tokens, Val(cur), token_in(farm, token)), next |-> id]
    ELSE [tokens |-> create_farm_token(tokens, id, token_in(farm, token)), next |-> id + 1]

\* The client calls its token_updater with a new token: _save_token reads
\* farm.token (line 188). No lock is held between this read and the write.
SaveRead(p) ==
    /\ ~IsNone(bound[p])
    /\ IsNone(saving[p])
    /\ \E token \in TokenData, cur \in farm_token(farm_tokens, Val(bound[p])) :
        saving' = [saving EXCEPT ![p] = Some([token |-> token, farm_token |-> cur])]
    /\ UNCHANGED <<farm_row, farm_tokens, next_token_id, now, settings, users,
                   pc, bound, outcome, last_saved, rvars, evars>>

\* update_farm_token or create_farm_token commits (lines 189, 191)
SaveWrite(p) ==
    /\ ~IsNone(saving[p])
    /\ LET s == Val(saving[p])
           w == save_token(farm_tokens, next_token_id, Val(bound[p]), s.token, s.farm_token)
       IN  /\ farm_tokens' = w.tokens
           /\ next_token_id' = w.next
           /\ last_saved' = [last_saved EXCEPT ![Val(bound[p])] = Some(s.token)]
    /\ saving' = [saving EXCEPT ![p] = None]
    /\ UNCHANGED <<farm_row, now, settings, users, pc, bound, outcome, rvars, evars>>

-----------------------------------------------------------------------------
(* The admin alert *)

send_failed == [type |-> "SMTPException", message |-> "send failed"]

RECURSIVE SendLoop(_, _, _, _, _)
\* "for user in users: if user.is_superuser: send_admin_alert_email(...)";
\* bad holds the addresses the send to which raises
SendLoop(us, i, message, bad, delivered) ==
    IF i > Len(us) THEN [delivered |-> delivered, raised |-> None]
    ELSE IF us[i].is_superuser
         THEN IF us[i].email \in bad
              THEN [delivered |-> delivered, raised |-> Some(send_failed)]
              ELSE SendLoop(us, i + 1, message, bad,
                            Append(delivered, [email_to |-> us[i].email, message |-> message]))
         ELSE SendLoop(us, i + 1, message, bad, delivered)

\* admin_alert_email
admin_alert_email(enabled, us, message, bad) ==
    IF enabled THEN SendLoop(us, 1, message, bad, <<>>)
    ELSE [delivered |-> <<>>, raised |-> None]

-----------------------------------------------------------------------------
(* The client factory: get_farm_client *)

ClientError(e) == [type |-> "ClientError", message |-> e]

\* crud.farm.update_last_accessed
update_last_accessed(rows, farm, t) ==
    [rows EXCEPT ![farm].last_accessed = Some(t)]

\* crud.farm.update_is_authorized, auth_error defaulting to None
update_is_authorized(rows, farm, is_authorized, auth_error) ==
    [rows EXCEPT ![farm].is_authorized = is_authorized, ![farm].auth_error = auth_error]

\* lines 196-209: the farm's token is loaded and the token_updater is bound
\* to (db_session, farm); farmOS(...) then runs
Begin(p, farm) ==
    /\ pc[p] = "idle"
    /\ IsNone(saving[p])
    /\ pc' = [pc EXCEPT ![p] = "constructing"]
    /\ bound' = [bound EXCEPT ![p] = Some(farm)]
    /\ UNCHANGED <<farm_row, farm_tokens, next_token_id, now, settings, users,
                   saving, outcome, last_saved, rvars, evars>>

\* the try block run to its end with is_authorized=False passed at line 221
construct_ok_unmarked(rows, farm, t) ==
    update_is_authorized(update_last_accessed(rows, farm, t), farm, FALSE, None)

\* lines 220-221: the farm row after farmOS(...) returned
construct_ok(rows, farm, t) ==
    update_is_authorized(update_last_accessed(rows, farm, t), farm, TRUE, None)

\* farmOS(...) returned a client: lines 212-221 and 229
ConstructOk(p) ==
    /\ pc[p] = "constructing"
    /\ IsNone(saving[p])
    /\ farm_row' = construct_ok(farm_row, Val(bound[p]), now)
    /\ outcome' = Some([farm |-> Val(bound[p]), res |-> Return(Some("client"), <<>>),
                        sent |-> <<>>])
    /\ pc' = [pc EXCEPT ![p] = "idle"]
    /\ UNCHANGED <<farm_tokens, next_token_id, now, settings, users,
                   bound, saving, last_saved, rvars, evars>>

\* the message of lines 224 and 225
AuthMessage(farm, e) == [farm_id |-> farm, error |-> e]

\* the except block marking the farm before it alerts
construct_failed_mark_first(rows, cfg, us, farm, e, bad) ==
    LET mail == IF cfg.AGGREGATOR_ALERT_ALL_ERRORS
                THEN admin_alert_email(cfg.EMAILS_ENABLED, us, AuthMessage(farm, e), bad)
                ELSE [delivered |-> <<>>, raised |-> None]
    IN  IF ~IsNone(mail.raised)
        THEN [delivered |-> mail.delivered, rows |-> update_is_authorized(rows, farm, FALSE, Some(e)),
              exc |-> Val(mail.raised)]
        ELSE [delivered |-> mail.delivered,
              rows |-> update_is_authorized(rows, farm, FALSE, Some(e)),
              exc |-> ClientError(e)]

\* the except block also clearing last_accessed
construct_failed_clears_access(rows, cfg, us, farm, e, bad) ==
    LET mail == IF cfg.AGGREGATOR_ALERT_ALL_ERRORS
                THEN admin_alert_email(cfg.EMAILS_ENABLED, us, AuthMessage(farm, e), bad)
                ELSE [delivered |-> <<>>, raised |-> None]
    IN  IF ~IsNone(mail.raised)
        THEN [delivered |-> mail.delivered, rows |-> rows,
              exc |-> Val(mail.raised)]
        ELSE [delivered |-> mail.delivered,
              rows |-> [update_is_authorized(rows, farm, FALSE, Some(e)) EXCEPT ![farm].last_accessed = None],
              exc |-> ClientError(e)]

\* the except block storing the error text and leaving is_authorized
construct_failed_keeps_flag(rows, cfg, us, farm, e, bad) ==
    LET mail == IF cfg.AGGREGATOR_ALERT_ALL_ERRORS
                THEN admin_alert_email(cfg.EMAILS_ENABLED, us, AuthMessage(farm, e), bad)
                ELSE [delivered |-> <<>>, raised |-> None]
    IN  IF ~IsNone(mail.raised)
        THEN [delivered |-> mail.delivered, rows |-> rows,
              exc |-> Val(mail.raised)]
        ELSE [delivered |-> mail.delivered,
              rows |-> [rows EXCEPT ![farm].auth_error = Some(e)],
              exc |-> ClientError(e)]

\* lines 222-227, the except block: what it sends, the farm rows it leaves
\* and the exception that leaves get_farm_client
construct_failed(rows, cfg, us, farm, e, bad) ==
    LET mail == IF cfg.AGGREGATOR_ALERT_ALL_ERRORS
                THEN admin_alert_email(cfg.EMAILS_ENABLED, us, AuthMessage(farm, e), bad)
                ELSE [delivered |-> <<>>, raised |-> None]
    IN  IF ~IsNone(mail.raised)
        THEN [delivered |-> mail.delivered, rows |-> rows, exc |-> Val(mail.raised)]
        ELSE [delivered |-> mail.delivered,
              rows |-> update_is_authorized(rows, farm, FALSE, Some(e)),
              exc |-> ClientError(e)]

\* farmOS(...) raised e
ConstructFail(p) ==
    /\ pc[p] = "constructing"
    /\ IsNone(saving[p])
    /\ \E e \in Errors, bad \in SUBSET {users[i].email : i \in 1..Len(users)} :
        LET f == construct_failed(farm_row, settings, users, Val(bound[p]), e, bad)
        IN  /\ farm_row' = f.rows
            /\ outcome' = Some([farm |-> Val(bound[p]), res |-> Raise(f.exc, <<>>),
                                sent |-> f.delivered])
    /\ pc' = [pc EXCEPT ![p] = "idle"]
    /\ UNCHANGED <<farm_tokens, next_token_id, now, settings, users,
                   bound, saving, last_saved, rvars, evars>>

Tick ==
    /\ now < MaxTime
    /\ now' = now + 1
    /\ UNCHANGED <<farm_row, farm_tokens, next_token_id, settings, users,
                   pc, bound, saving, outcome, last_saved, rvars, evars>>

InitClient ==
    /\ ResolversIdle
    /\ ExchangeIdle
    /\ farm_row = [f \in ClientFarms |->
                     [is_authorized |-> FALSE, auth_error |-> None, last_accessed |-> None]]
    /\ farm_tokens \in {{}} \cup
           {{[id |-> 1, farm_id |-> f, access_token |-> 1, refresh_token |-> 1]} : f \in ClientFarms}
    /\ next_token_id = Cardinality(farm_tokens) + 1
    /\ now = 0
    /\ settings \in [AGGREGATOR_ALERT_ALL_ERRORS : BOOLEAN, EMAILS_ENABLED : BOOLEAN]
    /\ users = UserTable
    /\ pc = [p \in Sessions |-> "idle"]
    /\ bound = [p \in Sessions |-> None]
    /\ saving = [p \in Sessions |-> None]
    /\ outcome = None
    /\ last_saved = [f \in ClientFarms |-> None]

NextClient ==
    \/ \E p \in Sessions, farm \in ClientFarms : Begin(p, farm)
    \/ \E p \in Sessions : SaveRead(p)
    \/ \E p \in Sessions : SaveWrite(p)
    \/ \E p \in Sessions : ConstructOk(p)
    \/ \E p \in Sessions : ConstructFail(p)
    \/ Tick

SpecClient == InitClient /\ [][NextClient]_vars

-----------------------------------------------------------------------------
(* The admin alert on its own: any user table, any failing addresses *)

UserTables ==
    UNION {{[i \in 1..n |-> [email |-> i, is_superuser |-> su[i]]] : su \in [1..n -> BOOLEAN]} :
             n \in 0..MaxUsers}

InitAlert ==
    /\ ResolversIdle
    /\ DbIdle
    /\ ExchangeIdle
    /\ now = 0
    /\ users \in UserTables
    /\ settings \in [AGGREGATOR_ALERT_ALL_ERRORS : BOOLEAN, EMAILS_ENABLED : BOOLEAN]

\* admin_alert_email(db_session, message), the sends to the addresses in
\* bad raising
AdminAlert ==
    /\ IsNone(alert)
    /\ \E bad \in SUBSET {users[i].email : i \in 1..Len(users)} :
        alert' = Some([bad |-> bad,
                       res |-> admin_alert_email(settings.EMAILS_ENABLED, users,
                                                 "alert", bad)])
    /\ UNCHANGED <<rvars, cvars, oauth_farm_url, auth_params, response, posted, exchanged>>

NextAlert == AdminAlert

SpecAlert == InitAlert /\ [][NextAlert]_vars

-----------------------------------------------------------------------------
(* The OAuth code exchange: get_oauth_token *)

HTTP_200_OK == 200

HTTP_400_BAD_REQUEST == 400

StatusCodes == {HTTP_200_OK, 201, HTTP_400_BAD_REQUEST, HTTP_401_UNAUTHORIZED, 500}

exchange_failed ==
    [status_code |-> HTTP_400_BAD_REQUEST, detail |-> "Could not retrieve an access token."]

key_error == [type |-> "KeyError", message |-> "expires_in"]

\* Python and JSON values carry their type: <<"int", n>>, <<"float", n>>,
\* and <<"str", v>> for the text of the value v.

\* str(x)
pystr(x) == <<"str", x>>

\* time.time()
pytime(t) == <<"float", t>>

\* int(x): of an int, of a float with a whole value, or of the text of one
pyint(x) == IF x[1] = "str" THEN <<"int", x[2][2]>> ELSE <<"int", x[2]>>

\* float + int
pyadd(x, y) == <<"float", x[2] + y[2]>>

\* the number a value stands for, read back from its text if it is a str
Seconds(x) == IF x[1] = "str" THEN x[2][2] ELSE x[2]

\* lines 234-245: the form posted to the token endpoint
token_request(url, params) ==
    [code |-> params.code, state |-> params.state, grant_type |-> params.grant_type,
     client_id |-> params.client_id,
     redirect_uri |-> IF ~IsNone(params.redirect_uri) THEN Val(params.redirect_uri)
                      ELSE <<url, "/api/authorized">>,
     client_secret |-> params.client_secret]

\* token_response taking every 2xx status for a success
token_response_any_2xx(resp, t) ==
    IF resp.status_code >= 200 /\ resp.status_code < 300
    THEN Return(Some([access_token |-> resp.json.access_token,
                      expires_at |-> resp.json.expires_at]), <<>>)
    ELSE Raise(exchange_failed, <<>>)

\* token_response leaving time.time() out of the expiry
token_response_no_now(resp, t) ==
    IF resp.status_code = HTTP_200_OK
    THEN IF IsNone(resp.json.expires_at)
         THEN IF IsNone(resp.json.expires_in)
              THEN Raise(key_error, <<>>)
              ELSE Return(Some([access_token |-> resp.json.access_token,
                                expires_at |->
                                    Some(pystr(pyadd(pytime(0), pyint(Val(resp.json.expires_in)))))]),
                          <<>>)
         ELSE Return(Some([access_token |-> resp.json.access_token,
                           expires_at |-> resp.json.expires_at]), <<>>)
    ELSE Raise(exchange_failed, <<>>)

\* lines 251-262: what get_oauth_token makes of the response, at time t
token_response(resp, t) ==
    IF resp.status_code = HTTP_200_OK
    THEN IF IsNone(resp.json.expires_at)
         THEN IF IsNone(resp.json.expires_in)
              THEN Raise(key_error, <<>>)
              ELSE Return(Some([access_token |-> resp.json.access_token,
                                expires_at |->
                                    Some(pystr(pyadd(pytime(t), pyint(Val(resp.json.expires_in)))))]),
                          <<>>)
         ELSE Return(Some([access_token |-> resp.json.access_token,
                           expires_at |-> resp.json.expires_at]), <<>>)
    ELSE Raise(exchange_failed, <<>>)

AuthParams ==
    [code : {"code"}, state : {"state"}, grant_type : {"authorization_code"},
     client_id : {"farm_client"},
     client_secret : {None, Some("secret")},
     redirect_uri : {None, Some("https://aggregator/authorize")}]

Responses ==
    [status_code : StatusCodes,
     json : [access_token : {"at"},
             expires_at : {None, Some(<<"float", MaxTime + 1>>)},
             expires_in : {None} \cup {Some(<<"int", n>>) : n \in 0..MaxTime}
                                 \cup {Some(pystr(<<"int", n>>)) : n \in 0..MaxTime}]]

\* the inputs of one exchange are drawn: the farm, the parameters, the time
\* and the answer the farm's token endpoint will give
InitExchange ==
    /\ ResolversIdle
    /\ DbIdle
    /\ settings = [AGGREGATOR_ALERT_ALL_ERRORS |-> FALSE, EMAILS_ENABLED |-> FALSE]
    /\ users = <<>>
    /\ alert = None
    /\ posted = <<>>
    /\ exchanged = None
    /\ oauth_farm_url \in {Some(u) : u \in Urls}
    /\ auth_params \in {Some(a) : a \in AuthParams}
    /\ response \in {Some(r) : r \in Responses}
    /\ now \in 0..MaxTime

\* get_oauth_token(farm_url, auth_params)
get_oauth_token ==
    /\ IsNone(exchanged)
    /\ ~IsNone(auth_params)
    /\ posted' = Append(posted, [url |-> <<Val(oauth_farm_url), "/oauth2/token">>,
                                 data |-> token_request(Val(oauth_farm_url), Val(auth_params))])
    /\ exchanged' = Some(token_response(Val(response), now))
    /\ UNCHANGED <<rvars, cvars, alert, oauth_farm_url, auth_params, response>>

NextExchange == get_oauth_token

SpecExchange == InitExchange /\ [][NextExchange]_vars

-----------------------------------------------------------------------------
(* Properties of the resolvers, under SpecResolve *)

RanByIdList == rpc \in {"get_farms_by_id_list", "get_active_farms_by_id_list"}

RanByUrl == rpc \in {"get_farm_by_url", "get_active_farm_by_url"}

RanUrlOrList == rpc \in {"get_farms_url_or_list", "get_active_farms_url_or_list"}

ActiveOnly ==
    rpc \in {"get_active_farm_by_url", "get_active_farms_by_id_list",
             "get_active_farms_url_or_list"}

SomeIdDenied ==
    /\ ~IsNone(farm_id)
    /\ \E i \in 1..Len(Val(farm_id)) : ~can_access_farm(farm_access, Val(farm_id)[i])

\* C1: in get_farms_by_id_list and get_active_farms_by_id_list, when farm_id
\* is given and can_access_farm is false for at least one id of it, at any
\* position, the call raises unauthorized_exception (the module's "not
\* enough permissions" error) and has issued no query on the farm table.
C1_DeniedBeforeAnyFetch ==
    (RanByIdList /\ SomeIdDenied) =>
        /\ Val(result).kind = "raise"
        /\ Val(result).exc = Some(unauthorized_exception)
        /\ Val(result).fetches = <<>>

\* a two-id request whose first id is accessible and in the table and whose
\* last id is not accessible was denied
C1_Witness ==
    /\ RanByIdList
    /\ ~IsNone(farm_id) /\ Len(Val(farm_id)) = 2
    /\ can_access_farm(farm_access, Val(farm_id)[1])
    /\ ~can_access_farm(farm_access, Val(farm_id)[2])
    /\ \E f \in directory : f.id = Val(farm_id)[1] /\ f.active
    /\ Val(result).kind = "raise"

UrlMatches ==
    {f \in directory : f.url = Val(farm_url) /\ Visible(f, ActiveOnly)}

\* C2: get_farm_by_url and get_active_farm_by_url with a url raise
\* farm_not_found_exception exactly when no (active) farm has the url, raise
\* unauthorized_exception exactly when the farm found is not accessible, and
\* return the farm found exactly when it is accessible; the two exceptions
\* differ; without a url they return None and look nothing up.
C2_ByUrlOutcomes ==
    RanByUrl =>
        LET r == Val(result)
        IN  IF IsNone(farm_url)
            THEN r.kind = "return" /\ IsNone(r.value) /\ r.fetches = <<>>
            ELSE /\ (r.kind = "raise" /\ r.exc = Some(farm_not_found_exception))
                        <=> UrlMatches = {}
                 /\ (r.kind = "raise" /\ r.exc = Some(unauthorized_exception))
                        <=> (~IsNone(looked) /\ ~can_access_farm(farm_access, Val(looked).id))
                 /\ r.kind = "return"
                        <=> (~IsNone(looked) /\ can_access_farm(farm_access, Val(looked).id))
                 /\ r.kind = "return" => r.value = looked
                 /\ ~IsNone(looked) => Val(looked) \in UrlMatches
                 /\ farm_not_found_exception # unauthorized_exception

\* a url of an existing farm that the caller may not access was refused
C2_Witness ==
    /\ RanByUrl
    /\ ~IsNone(farm_url)
    /\ UrlMatches # {}
    /\ Val(result).kind = "raise"
    /\ Val(result).exc = Some(unauthorized_exception)

\* C3: whenever get_farms_url_or_list or get_active_farms_url_or_list
\* returns: if the by-url dependency gave a farm, the list returned is that
\* one farm alone, whatever the by-id-list dependency gave; if it gave None,
\* the list returned is the by-id-list result, or the empty list when that
\* is None too. It returns whenever neither dependency raised.
C3_UrlFarmHasPriority ==
    RanUrlOrList =>
        /\ (Val(by_url).kind = "return" /\ ~IsNone(by_list) /\ Val(by_list).kind = "return")
              => Val(result).kind = "return"
        /\ Val(result).kind = "return" =>
              LET u == Val(by_url).value
                  l == Val(by_list).value
                  farms == Val(Val(result).value)
              IN  /\ ~IsNone(u) =>
                        /\ farms = <<Val(u)>>
                        /\ Len(farms) = 1
                        /\ ~IsNone(l) =>
                              \A f \in SeqRange(Val(l)) : f # Val(u) => f \notin SeqRange(farms)
                  /\ IsNone(u) =>
                        farms = (IF IsNone(l) THEN <<>> ELSE Val(l))

\* both dependencies gave farms, the by-id-list one a farm other than the
\* by-url one, and the request returned
C3_Witness ==
    /\ RanUrlOrList
    /\ Val(result).kind = "return"
    /\ ~IsNone(Val(by_url).value)
    /\ ~IsNone(Val(by_list).value)
    /\ \E f \in SeqRange(Val(Val(by_list).value)) : f # Val(Val(by_url).value)

-----------------------------------------------------------------------------
(* Properties of the client factory and the token store, under SpecClient *)

TokensOf(tokens, farm) == {t \in tokens : t.farm_id = farm}

\* C4: whenever farmOS(...) raises inside get_farm_client, the call ends by
\* raising ClientError wrapping that error, and right after it the farm's
\* is_authorized is false and its auth_error is the text of the error.
C4_FailureRaisesClientErrorAndMarksFarm ==
    [][\A p \in Sessions :
         ConstructFail(p) =>
            \E e \in Errors :
               /\ Val(outcome').res.kind = "raise"
               /\ Val(outcome').res.exc = Some(ClientError(e))
               /\ farm_row'[Val(bound[p])].is_authorized = FALSE
               /\ farm_row'[Val(bound[p])].auth_error = Some(e)]_vars

\* C5: in every reachable state each farm owns at most one token row.
C5_AtMostOneTokenPerFarm ==
    \A f \in ClientFarms : Cardinality(TokensOf(farm_tokens, f)) <= 1

\* C6: in every reachable state of the token table, for every farm and
\* token: _save_token on a farm whose farm.token is a row rewrites that row
\* in place (same id, all fields those of the token, no row added, the other
\* rows untouched); on a farm whose farm.token is None it adds exactly one
\* row, for that farm, with the token's fields; and on a farm with a token
\* or with none, a second _save_token of the same token changes nothing.
C6_SaveUpdatesInPlaceOrCreatesOne ==
    \A f \in ClientFarms, tok \in TokenData :
    \A cur \in farm_token(farm_tokens, f) :
        LET once == save_token(farm_tokens, next_token_id, f, tok, cur)
            row(id) == [id |-> id, farm_id |-> f, access_token |-> tok.access_token,
                        refresh_token |-> tok.refresh_token]
        IN  /\ ~IsNone(cur) =>
                  /\ {t.id : t \in once.tokens} = {t.id : t \in farm_tokens}
                  /\ Cardinality(once.tokens) = Cardinality(farm_tokens)
                  /\ row(Val(cur)) \in once.tokens
                  /\ \A t \in farm_tokens : t.id # Val(cur) => t \in once.tokens
                  /\ once.next = next_token_id
            /\ IsNone(cur) =>
                  /\ farm_tokens \subseteq once.tokens
                  /\ once.tokens \ farm_tokens = {row(next_token_id)}
                  /\ Cardinality(TokensOf(once.tokens, f)) = 1
            /\ Cardinality(TokensOf(farm_tokens, f)) <= 1 =>
                  \A again \in farm_token(once.tokens, f) :
                      save_token(once.tokens, once.next, f, tok, again) = once

\* the farm's first token row has been rewritten in place with token 2 by a
\* save that committed
C6_Witness ==
    \E f \in ClientFarms :
        /\ last_saved[f] = Some([access_token |-> 2, refresh_token |-> 2])
        /\ TokensOf(farm_tokens, f) =
              {[id |-> 1, farm_id |-> f, access_token |-> 2, refresh_token |-> 2]}

\* C7: two get_farm_client calls on one farm that owns a token run
\* concurrently and their clients save refreshed tokens: a save that has
\* read farm.token can always commit and a bound token_updater can always
\* start a save, whatever the other session is doing; and the farm's token
\* row holds, in every field, the token of the save that committed last.
C7_LastWriterWins ==
    /\ \A p \in Sessions :
          /\ ~IsNone(saving[p]) => ENABLED SaveWrite(p)
          /\ (~IsNone(bound[p]) /\ IsNone(saving[p])) => ENABLED SaveRead(p)
    /\ \A f \in ClientFarms :
          (Cardinality(TokensOf(farm_tokens, f)) = 1 /\ ~IsNone(last_saved[f])) =>
              \A t \in TokensOf(farm_tokens, f) :
                  /\ t.access_token = Val(last_saved[f]).access_token
                  /\ t.refresh_token = Val(last_saved[f]).refresh_token

\* both sessions are inside farmOS(...) on the same farm; the save of one
\* has committed token 2 over the row both read, the save of the other has
\* read that row and not yet written token 1
C7_Witness ==
    /\ pc["s1"] = "constructing" /\ pc["s2"] = "constructing"
    /\ bound["s1"] = bound["s2"]
    /\ IsNone(saving["s1"])
    /\ saving["s2"] = Some([token |-> [access_token |-> 1, refresh_token |-> 1],
                            farm_token |-> Some(1)])
    /\ last_saved[Val(bound["s1"])] = Some([access_token |-> 2, refresh_token |-> 2])
    /\ TokensOf(farm_tokens, Val(bound["s1"])) =
          {[id |-> 1, farm_id |-> Val(bound["s1"]), access_token |-> 2, refresh_token |-> 2]}

\* C8: when farmOS(...) returns, get_farm_client returns the client and
\* right after it the farm is authorized, its auth_error is cleared and its
\* last_accessed is the time of the call.
C8_SuccessMarksFarm ==
    [][\A p \in Sessions :
         ConstructOk(p) =>
            /\ Val(outcome').res = Return(Some("client"), <<>>)
            /\ farm_row'[Val(bound[p])].is_authorized = TRUE
            /\ farm_row'[Val(bound[p])].auth_error = None
            /\ farm_row'[Val(bound[p])].last_accessed = Some(now)]_vars

\* a call returned a client at time 1 and the farm is authorized, without
\* error, last accessed at 1
C8_Witness ==
    /\ ~IsNone(outcome)
    /\ Val(outcome).res.kind = "return"
    /\ now = 1
    /\ farm_row[Val(outcome).farm] =
          [is_authorized |-> TRUE, auth_error |-> None, last_accessed |-> Some(1)]

-----------------------------------------------------------------------------
(* Properties of the code exchange, under SpecExchange, and of the admin   *)
(* alert, under SpecAlert                                                  *)

\* C9: get_oauth_token posts exactly one request, to the farm's token
\* endpoint; on every response status other than 200 it raises the 400
\* "Could not retrieve an access token." error and returns no token; it
\* returns a token only on status 200.
C9_OneRequestNoRetry ==
    /\ Len(posted) = (IF IsNone(exchanged) THEN 0 ELSE 1)
    /\ ~IsNone(exchanged) =>
          /\ posted[1].url = <<Val(oauth_farm_url), "/oauth2/token">>
          /\ Val(response).status_code # 200 =>
                /\ Val(exchanged).kind = "raise"
                /\ Val(exchanged).exc = Some(exchange_failed)
                /\ exchange_failed.status_code = 400
                /\ IsNone(Val(exchanged).value)
          /\ Val(exchanged).kind = "return" =>
                /\ Val(response).status_code = 200
                /\ ~IsNone(Val(exchanged).value)

\* the token endpoint answered 201 with a well-formed body and the exchange
\* failed after its one request
C9_Witness ==
    /\ ~IsNone(exchanged)
    /\ Val(response).status_code = 201
    /\ ~IsNone(Val(response).json.expires_at)
    /\ Val(exchanged).kind = "raise"
    /\ Len(posted) = 1

\* C10: admin_alert_email with EMAILS_ENABLED delivers the message to every
\* superuser whose own send does not fail, whatever sends to other
\* recipients fail.
C10_EverySuperuserIsSent ==
    (~IsNone(alert) /\ settings.EMAILS_ENABLED) =>
        \A i \in 1..Len(users) :
            (users[i].is_superuser /\ users[i].email \notin Val(alert).bad) =>
                \E j \in 1..Len(Val(alert).res.delivered) :
                    Val(alert).res.delivered[j].email_to = users[i].email

-----------------------------------------------------------------------------
(* Further properties of the resolvers, under SpecResolve *)

RanById == rpc = "get_farm_by_id"

\* the (active) farms of the table whose id is in the request's list
IdMatches ==
    {f \in directory : f.id \in SeqRange(Val(farm_id)) /\ Visible(f, ActiveOnly)}

\* C11: in get_farms_by_id_list and get_active_farms_by_id_list with
\* farm_id given and every id of it accessible, the call raises
\* farm_not_found_exception exactly when no (active) farm has an id of the
\* list, and otherwise returns exactly the (active) farms whose id is in
\* the list, each once.
C11_NotFoundIffNoMatch ==
    (RanByIdList /\ ~IsNone(farm_id) /\ ~SomeIdDenied) =>
        LET r == Val(result)
        IN  /\ (r.kind = "raise" /\ r.exc = Some(farm_not_found_exception))
                  <=> IdMatches = {}
            /\ IdMatches # {} =>
                  /\ r.kind = "return"
                  /\ ~IsNone(r.value)
                  /\ SeqRange(Val(r.value)) = IdMatches
                  /\ Len(Val(r.value)) = Cardinality(IdMatches)

\* a request for two accessible ids, one in the table and one not, returned
\* the one farm
C11_Witness ==
    /\ RanByIdList
    /\ ~IsNone(farm_id) /\ Len(Val(farm_id)) = 2 /\ ~SomeIdDenied
    /\ Cardinality(IdMatches) = 1
    /\ Cardinality(SeqRange(Val(farm_id))) = 2
    /\ Val(result).kind = "return"

\* C12: in get_farms_by_id_list and get_active_farms_by_id_list without
\* farm_id: a grant with all_farms returns every (active) farm of the
\* table; a grant with a farm_id_list returns exactly the (active) farms
\* whose id is in it; a grant with neither returns None; and none of these
\* raises.
C12_NoIdsFollowsGrant ==
    (RanByIdList /\ IsNone(farm_id)) =>
        LET r == Val(result)
            all == {f \in directory : Visible(f, ActiveOnly)}
        IN  /\ r.kind = "return"
            /\ farm_access.all_farms =>
                  /\ ~IsNone(r.value)
                  /\ SeqRange(Val(r.value)) = all
                  /\ Len(Val(r.value)) = Cardinality(all)
            /\ (~farm_access.all_farms /\ ~IsNone(farm_access.farm_id_list)) =>
                  LET mine == {f \in all : f.id \in Val(farm_access.farm_id_list)}
                  IN  /\ ~IsNone(r.value)
                      /\ SeqRange(Val(r.value)) = mine
                      /\ Len(Val(r.value)) = Cardinality(mine)
            /\ (~farm_access.all_farms /\ IsNone(farm_access.farm_id_list)) =>
                  IsNone(r.value)

\* the active-only call of a grant for farm 1 alone, on a table that holds
\* an inactive farm 1 and another farm, returned the empty list
C12_Witness ==
    /\ rpc = "get_active_farms_by_id_list"
    /\ IsNone(farm_id)
    /\ farm_access.farm_id_list = Some({1})
    /\ \E f \in directory : f.id = 1 /\ ~f.active
    /\ \E f \in directory : f.id # 1 /\ f.active
    /\ Val(result) = Return(Some(<<>>), <<"get_by_multi_id">>)

\* the request ran into a can_access_farm test that failed
AccessDenied ==
    \/ RanById /\ ~can_access_farm(farm_access, Val(farm_id)[1])
    \/ RanByIdList /\ SomeIdDenied
    \/ RanByUrl /\ ~IsNone(looked) /\ ~can_access_farm(farm_access, Val(looked).id)

\* C13: every access-denied outcome of get_farm_by_url, get_farms_by_id_list
\* and get_farm_by_id (and their active-only variants) is the 403 "not
\* enough permissions" error.
C13_DeniedIsForbidden403 ==
    AccessDenied =>
        /\ Val(result).kind = "raise"
        /\ Val(Val(result).exc).status_code = HTTP_403_FORBIDDEN

\* the farms a returned result holds
ResultFarms ==
    LET v == Val(result).value
    IN  IF IsNone(result) \/ Val(result).kind # "return" \/ IsNone(v) THEN {}
        ELSE IF RanByUrl \/ RanById THEN {Val(v)}
        ELSE SeqRange(Val(v))

\* C15: whatever the grant, the url, the id list and the farm table, every
\* farm in a result that a resolver returns is one the grant can access.
C15_OnlyAccessibleFarmsReturned ==
    \A f \in ResultFarms : can_access_farm(farm_access, f.id)

\* a restricted grant got a farm back by url
C15_Witness ==
    /\ RanByUrl \/ RanUrlOrList
    /\ ~farm_access.all_farms
    /\ ~IsNone(looked)
    /\ ResultFarms = {Val(looked)}
    /\ \E f \in directory : ~can_access_farm(farm_access, f.id)

\* the by-url dependency returned a farm
UrlGaveFarm ==
    /\ ~IsNone(by_url)
    /\ Val(by_url).kind = "return"
    /\ ~IsNone(Val(by_url).value)

\* C16: get_farms_url_or_list and get_active_farms_url_or_list return only
\* if both dependencies returned: with a url that resolves to an accessible
\* farm, the request still raises unauthorized_exception when farm_id holds
\* an id the grant cannot access and farm_not_found_exception when farm_id
\* matches no (active) farm.
C16_BothDependenciesMustSucceed ==
    RanUrlOrList =>
        /\ Val(result).kind = "return" =>
              /\ Val(by_url).kind = "return"
              /\ ~IsNone(by_list) /\ Val(by_list).kind = "return"
        /\ (UrlGaveFarm /\ SomeIdDenied) =>
              /\ Val(result).kind = "raise"
              /\ Val(result).exc = Some(unauthorized_exception)
        /\ (UrlGaveFarm /\ ~IsNone(farm_id) /\ ~SomeIdDenied /\ IdMatches = {}) =>
              /\ Val(result).kind = "raise"
              /\ Val(result).exc = Some(farm_not_found_exception)

\* the url resolved to an accessible farm and the request failed on its
\* id list
C16_Witness ==
    /\ RanUrlOrList
    /\ UrlGaveFarm
    /\ ~IsNone(farm_id) /\ Len(Val(farm_id)) > 0 /\ ~SomeIdDenied /\ IdMatches = {}
    /\ Val(result).kind = "raise"

-----------------------------------------------------------------------------
(* The expiry of an exchanged token, under SpecExchange *)

\* C14: every token get_oauth_token returns has an expires_at: when the 200
\* response has no expires_at it stands for the time of the call plus the
\* response's expires_in seconds; when the response has one it is that value
\* unchanged.
C14_ExpiryIsNowPlusExpiresIn ==
    (~IsNone(exchanged) /\ Val(exchanged).kind = "return") =>
        LET token == Val(Val(exchanged).value)
            json == Val(response).json
        IN  /\ ~IsNone(token.expires_at)
            /\ IsNone(json.expires_at) =>
                  /\ ~IsNone(json.expires_in)
                  /\ Seconds(Val(token.expires_at)) = now + Seconds(Val(json.expires_in))
            /\ ~IsNone(json.expires_at) => token.expires_at = json.expires_at

\* at time 1 a response without expires_at and with expires_in "1", as
\* text, gave a token that expires at 2
C14_Witness ==
    /\ ~IsNone(exchanged)
    /\ Val(exchanged).kind = "return"
    /\ now = 1
    /\ IsNone(Val(response).json.expires_at)
    /\ Val(response).json.expires_in = Some(pystr(<<"int", 1>>))
    /\ Val(Val(exchanged).value).expires_at = Some(pystr(<<"float", 2>>))

-----------------------------------------------------------------------------
(* The failure path of get_farm_client, under SpecClient *)

\* the superusers of a user table
Superusers(us) == {i \in 1..Len(us) : us[i].is_superuser}

\* C17: whenever farmOS(...) raises, get_farm_client ends in one of two
\* ways. Either the alert raised: then the alert policy and e-mail are on,
\* the alert's error leaves the call and the farm row is as it was. Or the
\* alert step completed (every superuser was sent the message when the
\* policy and e-mail are on): then the farm is marked unauthorized with the
\* error text and ClientError is raised. With the policy off the call sends
\* nothing.
C17_AlertThenMarkThenRaise ==
    [][\A p \in Sessions :
         ConstructFail(p) =>
            LET o == Val(outcome')
                f == Val(bound[p])
            IN  /\ o.res.kind = "raise"
                /\ \/ /\ o.res.exc = Some(send_failed)
                      /\ settings.AGGREGATOR_ALERT_ALL_ERRORS
                      /\ settings.EMAILS_ENABLED
                      /\ Len(o.sent) < Cardinality(Superusers(users))
                      /\ farm_row' = farm_row
                   \/ \E e \in Errors :
                      /\ o.res.exc = Some(ClientError(e))
                      /\ farm_row'[f].is_authorized = FALSE
                      /\ farm_row'[f].auth_error = Some(e)
                      /\ (settings.AGGREGATOR_ALERT_ALL_ERRORS /\ settings.EMAILS_ENABLED) =>
                            /\ Len(o.sent) = Cardinality(Superusers(users))
                            /\ \A i \in Superusers(users) :
                                  \E j \in 1..Len(o.sent) :
                                     o.sent[j] = [email_to |-> users[i].email,
                                                  message |-> AuthMessage(f, e)]
                /\ ~settings.AGGREGATOR_ALERT_ALL_ERRORS => o.sent = <<>>]_vars

\* a farm that an earlier call authorized: a later call failed, alerted the
\* first superuser, the send to the second raised, and the farm is still
\* authorized, without error text
C17_Witness ==
    /\ ~IsNone(outcome)
    /\ Val(outcome).res.kind = "raise"
    /\ Val(outcome).res.exc = Some(send_failed)
    /\ Len(Val(outcome).sent) = 1
    /\ farm_row[Val(outcome).farm].is_authorized = TRUE
    /\ farm_row[Val(outcome).farm].auth_error = None

C19_FlagFollowsLastCall ==
    ~IsNone(outcome) =>
        LET o == Val(outcome)
        IN  /\ o.res.kind = "return" => farm_row[o.farm].is_authorized = TRUE
            /\ (o.res.kind = "raise" /\ o.res.exc # Some(send_failed)) =>
                  farm_row[o.farm].is_authorized = FALSE

\* an earlier call succeeded (the farm has a last_accessed), the last call
\* raised ClientError, no session is inside a call, and the farm is
\* unauthorized
C19_Witness ==
    /\ ~IsNone(outcome)
    /\ Val(outcome).res.kind = "raise"
    /\ Val(outcome).res.exc \in {Some(ClientError(e)) : e \in Errors}
    /\ \A p \in Sessions : pc[p] = "idle"
    /\ farm_row[Val(outcome).farm].last_accessed # None
    /\ farm_row[Val(outcome).farm].is_authorized = FALSE

====
